---- MODULE Spec2Model ----
(***************************************************************************)
(* EnterpriseFlow: the circuit breaker (services/circuit-breaker.ts), the  *)
(* rate limiting policy (policy-engine.ts) and the configuration manager   *)
(* (config-manager.ts).                                                    *)
(*                                                                         *)
(* Circuit breaker: one CircuitBreakerService instance holding the breaker *)
(* of one service id, the shared store keys circuit:{serviceId}:* it       *)
(* mirrors to, the other gateway instances that write the same keys, and   *)
(* the in-flight hydration (initializeFromRedis) the constructor starts    *)
(* without awaiting it.                                                    *)
(* Rate limiting: the evaluate() calls for one client IP on one route and  *)
(* the counter key they read and write.                                    *)
(* Configuration manager: one ConfigManager, routes.json and the key       *)
(* config:routes.                                                          *)
(*                                                                         *)
(* The runtime is the single-threaded event loop: a synchronous method     *)
(* runs to completion, an async method runs up to its next await.          *)
(***************************************************************************)
EXTENDS Integers, Sequences, FiniteSets

(* ---- bounds of the model ---- *)
MaxTime == 2
MaxThreshold == 2
MaxTimeout == 1
MaxSBR == 1
MaxBurst == 2
MaxProbes == 2

\* failures grows without bound while the breaker is OPEN; recordFailure is
\* cut off at this count.
FailCap == MaxThreshold + MaxBurst - 1

(* ---- types/index.ts ---- *)
CLOSED == 0
OPEN == 1
HALF_OPEN == 2

\* The JavaScript number NaN (failures - undefined).  Every arithmetic and
\* comparison on a possibly-NaN value goes through the Js* operators below.
NaN == -1

\* CircuitBreakerConfig: failureThreshold and resetTimeout are required,
\* successesBeforeReset and distributed are optional (a key that is absent).
RequiredConfigs ==
    [failureThreshold : 1..MaxThreshold, resetTimeout : 1..MaxTimeout]

WithSBR(c, s) ==
    [k \in DOMAIN c \cup {"successesBeforeReset"} |->
        IF k = "successesBeforeReset" THEN s ELSE c[k]]

WithDistributed(c, d) ==
    [k \in DOMAIN c \cup {"distributed"} |->
        IF k = "distributed" THEN d ELSE c[k]]

ConfigsSBR ==
    RequiredConfigs \cup {WithSBR(c, s) : c \in RequiredConfigs, s \in 0..MaxSBR}

Configs ==
    ConfigsSBR \cup {WithDistributed(c, d) : c \in ConfigsSBR, d \in BOOLEAN}

\* if (this.config.distributed): an absent key reads undefined, which is falsy.
Distributed(c) == "distributed" \in DOMAIN c /\ c.distributed

\* { ...this.config, ...config }: keys of the new object win, the others stay.
SpreadMerge(old, new) ==
    [k \in DOMAIN old \cup DOMAIN new |-> IF k \in DOMAIN new THEN new[k] ELSE old[k]]

(* ---- JavaScript numbers ---- *)
JsIncr(x) == IF x = NaN THEN NaN ELSE x + 1

JsGE(x, y) == x # NaN /\ x >= y

JsGT(x, y) == x # NaN /\ x > y

Max(a, b) == IF a >= b THEN a ELSE b

\* Math.max(0, this.failures - this.config.successesBeforeReset)
DecrementFailures(f, c) ==
    IF "successesBeforeReset" \in DOMAIN c
    THEN Max(0, f - c.successesBeforeReset)
    ELSE NaN

(* ---- Number.prototype.toString and parseInt ---- *)
Digits == <<"0", "1", "2", "3", "4", "5", "6", "7", "8", "9">>

RECURSIVE NumberToString(_)
NumberToString(n) ==
    IF n = NaN THEN <<"N", "a", "N">>
    ELSE IF n < 10 THEN <<Digits[n + 1]>>
    ELSE NumberToString(n \div 10) \o <<Digits[(n % 10) + 1]>>

IsDigit(ch) == \E i \in 1..10 : Digits[i] = ch

DigitValue(ch) == (CHOOSE i \in 1..10 : Digits[i] = ch) - 1

RECURSIVE ParseDigits(_, _, _)
ParseDigits(s, i, acc) ==
    IF i > Len(s) \/ ~IsDigit(s[i]) THEN acc
    ELSE ParseDigits(s, i + 1, acc * 10 + DigitValue(s[i]))

\* parseInt: the leading decimal digits, NaN when there are none.
ParseInt(s) ==
    IF Len(s) = 0 \/ ~IsDigit(s[1]) THEN NaN ELSE ParseDigits(s, 1, 0)

(* ---- state ---- *)
VARIABLES
    clock,            \* Date.now()
    registered,       \* breakers.has(serviceId)
    config,           \* CircuitBreaker.config
    state,            \* CircuitBreaker.state
    failures,         \* CircuitBreaker.failures
    lastFailureTime,  \* CircuitBreaker.lastFailureTime
    nextAttemptTime,  \* CircuitBreaker.nextAttemptTime
    store,            \* the shared store's four circuit:{serviceId}:* keys
    hyd,              \* initializeFromRedis: where it is suspended
    lastOp,           \* the service method that ran last
    ret,              \* its return value
    emitted,          \* the events it emitted, in order
    burst,            \* record_failure calls in flight together
    probes,           \* requests admitted in HALF_OPEN, outcome not yet recorded
    late,             \* of those, the ones still out when a success closed the breaker
    issued,           \* the multi-ops the last call handed to the store client
    gauge             \* circuitBreakerStateGauge{service_id}

\* RateLimitingPolicy and the one counter key ratelimit:{route}:{clientIp}
VARIABLES
    rlContext,        \* context.rateLimit of the route
    rlValue,          \* the value under the counter key, Null when the key is absent
    rlTtl,            \* seconds until the key expires, 0 when it has no expiry
    rlReq,            \* the evaluate() calls in flight and where each is suspended
    rlWindow,         \* requests seen since the counter key last came to be
    rlLast            \* the evaluate() call that returned last

\* ConfigManager, routes.json and the key config:routes
VARIABLES
    routes,           \* ConfigManager.routes
    isInitialized,    \* ConfigManager.isInitialized
    routesFile,       \* the text of routes.json, Null when there is no file
    routesStore,      \* the text under config:routes, Null when the key is absent
    cmOps,            \* the mutations in flight and where each is suspended
    cmLast            \* the mutation that completed last

\* PolicyEngine and one applyPolicies call
VARIABLES
    pePolicies,       \* the names PolicyEngine.policies has a policy under
    peNames,          \* policyNames of the call
    peIndex,          \* the name whose evaluate() the call awaits, 0 when none
    peTrace,          \* what the loop did with each name it came to, in order
    peResult          \* what the call returned, nothing while it has not

breakerAll ==
    <<clock, registered, config, state, failures, lastFailureTime, nextAttemptTime,
      store, hyd, lastOp, ret, emitted, burst, probes, late, issued, gauge>>

limiterVars == <<rlContext, rlValue, rlTtl, rlReq, rlWindow, rlLast>>

managerVars == <<routes, isInitialized, routesFile, routesStore, cmOps, cmLast>>

policyVars == <<pePolicies, peNames, peIndex, peTrace, peResult>>

vars == <<breakerAll, limiterVars, managerVars, policyVars>>

breakerVars == <<state, failures, lastFailureTime, nextAttemptTime>>

ghostVars == <<burst, probes, late>>

\* A key that is not set reads null; null and "" are both falsy and both
\* replaced by '0' under ||, so the empty string stands for null.
Null == <<>>

EmptyStore ==
    [state |-> Null, failures |-> Null, lastFailure |-> Null, nextAttempt |-> Null,
     expiry |-> 0]

\* The gauge has no sample for the service before the first set().
NoSample == -2

HydKeys == <<"state", "failures", "lastFailure", "nextAttempt">>

HydIdle == [pc |-> "idle", k |-> 1, reply |-> Null]

NoBurst == [left |-> 0, opens |-> 0, trans |-> 0, on |-> FALSE]

StateChange(s) == [topic |-> "circuit:state-change", state |-> s]

FailureEvent(s) == [topic |-> "circuit:failure", state |-> s]

ResetEvent == [topic |-> "circuit:reset"]

BreakerInit ==
    /\ clock = 1
    /\ registered = FALSE
    /\ config = [failureThreshold |-> 1, resetTimeout |-> 1]
    /\ state = CLOSED
    /\ failures = 0
    /\ lastFailureTime = 0
    /\ nextAttemptTime = 0
    /\ store = EmptyStore
    /\ hyd = HydIdle
    /\ lastOp = "none"
    /\ ret = TRUE
    /\ emitted = <<>>
    /\ burst = NoBurst
    /\ probes = 0
    /\ late = 0
    /\ issued = <<>>
    /\ gauge = NoSample

(* ---- updateState: mirror the breaker to the shared store ---- *)
\* A variant that forgets the 30 minute minimum.
ExpirySecondsNoMinimum(rt) == (rt * 2) \div 1000

\* Math.floor(Math.max(resetTimeout * 2, 30 * 60 * 1000) / 1000), in seconds.
ExpirySeconds(rt) == Max(rt * 2, 30 * 60 * 1000) \div 1000

\* The multi-op: four sets and the same expiry on each of the four keys.
StoreWrite(st, f, lf, na, rt) ==
    [state |-> NumberToString(st), failures |-> NumberToString(f),
     lastFailure |-> NumberToString(lf), nextAttempt |-> NumberToString(na),
     expiry |-> ExpirySeconds(rt)]

\* The multi-op is issued only when config.distributed is truthy; exec may
\* reject (ok = FALSE), which is caught and logged.
StoreAfterUpdate(st, f, lf, na, ok) ==
    IF Distributed(config) /\ ok
    THEN StoreWrite(st, f, lf, na, config.resetTimeout)
    ELSE store

\* What one call of updateState hands to the store client.
IssuedByUpdate(st, f, lf, na) ==
    IF Distributed(config)
    THEN <<StoreWrite(st, f, lf, na, config.resetTimeout)>>
    ELSE <<>>

\* Commands of one client connection are served in the order issued: a get
\* of the hydration that is still unanswered is answered before the multi-op
\* issued after it.
HydAfterUpdate(ok) ==
    IF Distributed(config) /\ ok /\ hyd.pc = "wait"
    THEN [hyd EXCEPT !.pc = "have", !.reply = store[HydKeys[hyd.k]]]
    ELSE hyd

(* ---- decisions of the state machine ---- *)
\* Variants of the decisions below, each with one slip in it.
PromotesLate(st, now, na) == st = OPEN /\ now > na

PromotesAgain(st, now, na) == st # CLOSED /\ now >= na

PromotesEarly(st, now, na) == st = OPEN

OpensOnFailureAnyState(st, f, c) == JsGE(f, c.failureThreshold)

OpensOnFailureStrict(st, f, c) == st = CLOSED /\ JsGT(f, c.failureThreshold)

ReopensOnFailureWrongState(st) == st = OPEN

ReopensWhileOpen(st) == st # CLOSED

PromotesAfterQuietPeriod(st, now, na) ==
    st = OPEN /\ now >= lastFailureTime + config.resetTimeout

\* isAllowed, case OPEN: if (now >= this.nextAttemptTime)
Promotes(st, now, na) == st = OPEN /\ now >= na

\* recordFailure: this.state === CLOSED && this.failures >= failureThreshold
OpensOnFailure(st, f, c) == st = CLOSED /\ JsGE(f, c.failureThreshold)

\* recordFailure: else if (this.state === HALF_OPEN)
ReopensOnFailure(st) == st = HALF_OPEN

\* recordSuccess: if (this.state === HALF_OPEN)
ClosesOnSuccess(st) == st = HALF_OPEN

\* recordSuccess: if (this.state === CLOSED && this.failures > 0)
DecrementsOnSuccess(st, f) == st = CLOSED /\ JsGT(f, 0)

Quiet == burst.left = 0

ProbesAfter(st) == IF st = HALF_OPEN THEN probes ELSE 0

\* A step that is no call of a service method.
NoCall ==
    /\ lastOp' = "none"
    /\ ret' = TRUE
    /\ emitted' = <<>>
    /\ issued' = <<>>

(* ---- environment ---- *)
Tick ==
    /\ clock < MaxTime
    /\ clock' = clock + 1
    /\ NoCall
    /\ UNCHANGED <<registered, config, breakerVars, store, hyd, ghostVars>>
    /\ UNCHANGED gauge
    /\ UNCHANGED <<limiterVars, managerVars>>
    /\ UNCHANGED policyVars

(* ---- CircuitBreakerService.register ---- *)
RegisterNew(cfg) ==
    /\ ~registered
    /\ registered' = TRUE
    /\ config' = cfg
    /\ state' = CLOSED
    /\ failures' = 0
    /\ lastFailureTime' = 0
    /\ nextAttemptTime' = 0
    /\ hyd' = IF Distributed(cfg) THEN [pc |-> "wait", k |-> 1, reply |-> Null]
              ELSE HydIdle
    /\ lastOp' = "register"
    /\ ret' = TRUE
    /\ emitted' = <<>>
    /\ UNCHANGED <<clock, store, ghostVars>>
    /\ UNCHANGED gauge
    /\ issued' = <<>>
    /\ UNCHANGED <<limiterVars, managerVars>>
    /\ UNCHANGED policyVars

ReRegister(cfg) ==
    /\ registered
    /\ Quiet
    /\ config' = SpreadMerge(config, cfg)
    /\ lastOp' = "register"
    /\ ret' = TRUE
    /\ emitted' = <<>>
    /\ burst' = NoBurst
    /\ UNCHANGED <<clock, registered, breakerVars, store, hyd, probes, late>>
    /\ UNCHANGED gauge
    /\ issued' = <<>>
    /\ UNCHANGED <<limiterVars, managerVars>>
    /\ UNCHANGED policyVars

(* ---- isAllowed ---- *)
IsAllowed(ok) ==
    /\ Quiet
    /\ lastOp' = "isAllowed"
    /\ burst' = NoBurst
    /\ IF ~registered
       THEN /\ ret' = TRUE
            /\ emitted' = <<>>
            /\ issued' = <<>>
            /\ UNCHANGED <<breakerVars, store, hyd, probes>>
       ELSE LET now == clock
                promote == Promotes(state, now, nextAttemptTime)
                st1 == IF promote THEN HALF_OPEN ELSE state
                allowed == state # OPEN \/ promote
            IN  /\ (allowed /\ st1 = HALF_OPEN) => probes < MaxProbes
                /\ state' = st1
                /\ ret' = allowed
                /\ emitted' = IF promote THEN <<StateChange(HALF_OPEN)>> ELSE <<>>
                /\ store' = IF promote
                            THEN StoreAfterUpdate(st1, failures, lastFailureTime,
                                                  nextAttemptTime, ok)
                            ELSE store
                /\ issued' = IF promote
                             THEN IssuedByUpdate(st1, failures, lastFailureTime,
                                                 nextAttemptTime)
                             ELSE <<>>
                /\ hyd' = IF promote THEN HydAfterUpdate(ok) ELSE hyd
                /\ probes' = IF allowed /\ st1 = HALF_OPEN THEN probes + 1 ELSE probes
                /\ UNCHANGED <<failures, lastFailureTime, nextAttemptTime>>
    /\ UNCHANGED <<clock, registered, config, late>>
    /\ UNCHANGED gauge
    /\ UNCHANGED <<limiterVars, managerVars>>
    /\ UNCHANGED policyVars

(* ---- recordSuccess ---- *)
RecordSuccess(ok) ==
    /\ Quiet
    /\ lastOp' = "recordSuccess"
    /\ ret' = TRUE
    /\ burst' = NoBurst
    /\ IF ~registered
       THEN /\ emitted' = <<>>
            /\ issued' = <<>>
            /\ UNCHANGED <<breakerVars, store, hyd, probes, late, gauge>>
       ELSE LET closes == ClosesOnSuccess(state)
                \* this.reset()
                st1 == IF closes THEN CLOSED ELSE state
                f1 == IF closes THEN 0 ELSE failures
                na1 == IF closes THEN 0 ELSE nextAttemptTime
                decr == DecrementsOnSuccess(st1, f1)
                f2 == IF decr THEN DecrementFailures(f1, config) ELSE f1
            IN  /\ state' = st1
                /\ failures' = f2
                /\ nextAttemptTime' = na1
                /\ emitted' = IF closes THEN <<ResetEvent, StateChange(CLOSED)>>
                              ELSE <<>>
                /\ store' = IF closes \/ decr
                            THEN StoreAfterUpdate(st1, f2, lastFailureTime, na1, ok)
                            ELSE store
                /\ issued' =
                     (IF closes
                      THEN IssuedByUpdate(CLOSED, 0, lastFailureTime, 0)
                      ELSE <<>>)
                     \o (IF decr
                         THEN IssuedByUpdate(st1, f2, lastFailureTime, na1)
                         ELSE <<>>)
                /\ hyd' = IF closes \/ decr THEN HydAfterUpdate(ok) ELSE hyd
                \* this.metrics.recordCircuitBreakerSuccess: gauge.set(.., 0)
                /\ gauge' = 0
                /\ late' = IF closes THEN Max(probes - 1, 0)
                           ELSE IF late > 0 THEN late - 1 ELSE 0
                /\ probes' = IF closes THEN 0 ELSE ProbesAfter(st1)
                /\ UNCHANGED lastFailureTime
    /\ UNCHANGED <<clock, registered, config>>
    /\ UNCHANGED <<limiterVars, managerVars>>
    /\ UNCHANGED policyVars

(* ---- recordFailure ---- *)
RecordFailure(ok) ==
    /\ lastOp' = "recordFailure"
    /\ ret' = TRUE
    /\ IF ~registered
       THEN /\ emitted' = <<>>
            /\ issued' = <<>>
            /\ UNCHANGED <<breakerVars, store, hyd, ghostVars>>
       ELSE LET now == clock
                f1 == JsIncr(failures)
                opens == OpensOnFailure(state, f1, config)
                reopens == ~opens /\ ReopensOnFailure(state)
                st1 == IF opens \/ reopens THEN OPEN ELSE state
                na1 == IF opens \/ reopens THEN now + config.resetTimeout
                       ELSE nextAttemptTime
                evs == <<FailureEvent(state)>> \o
                       (IF opens \/ reopens
                        THEN <<StateChange(OPEN)>> ELSE <<>>)
            IN  /\ failures = NaN \/ failures < FailCap
                /\ lastFailureTime' = now
                /\ failures' = f1
                /\ state' = st1
                /\ nextAttemptTime' = na1
                /\ emitted' = evs
                /\ store' = StoreAfterUpdate(st1, f1, now, na1, ok)
                /\ issued' = IssuedByUpdate(st1, f1, now, na1)
                /\ hyd' = HydAfterUpdate(ok)
                /\ burst' = IF burst.left > 0
                            THEN [burst EXCEPT
                                    !.left = @ - 1,
                                    !.opens = @ + (Len(evs) - 1),
                                    !.trans = @ + (IF state = CLOSED /\ st1 = OPEN
                                                   THEN 1 ELSE 0)]
                            ELSE NoBurst
                /\ late' = IF late > 0 THEN late - 1 ELSE 0
                /\ probes' = ProbesAfter(st1)
    /\ UNCHANGED <<clock, registered, config>>
    /\ UNCHANGED gauge
    /\ UNCHANGED <<limiterVars, managerVars>>
    /\ UNCHANGED policyVars

(* ---- reset ---- *)
\* A variant of reset that forgets nextAttemptTime.
ResetKeepsNextAttempt(ok) ==
    /\ Quiet
    /\ lastOp' = "reset"
    /\ burst' = NoBurst
    /\ IF ~registered
       THEN /\ ret' = FALSE
            /\ emitted' = <<>>
            /\ issued' = <<>>
            /\ UNCHANGED <<breakerVars, store, hyd, probes>>
       ELSE /\ state' = CLOSED
            /\ failures' = 0
            /\ store' = StoreAfterUpdate(CLOSED, 0, lastFailureTime, nextAttemptTime, ok)
            /\ issued' = IssuedByUpdate(CLOSED, 0, lastFailureTime, nextAttemptTime)
            /\ hyd' = HydAfterUpdate(ok)
            /\ emitted' = <<ResetEvent>>
            /\ ret' = TRUE
            /\ probes' = 0
            /\ UNCHANGED <<lastFailureTime, nextAttemptTime>>
    /\ UNCHANGED <<clock, registered, config, late>>
    /\ UNCHANGED gauge
    /\ UNCHANGED <<limiterVars, managerVars>>
    /\ UNCHANGED policyVars

Reset(ok) ==
    /\ Quiet
    /\ lastOp' = "reset"
    /\ burst' = NoBurst
    /\ IF ~registered
       THEN /\ ret' = FALSE
            /\ emitted' = <<>>
            /\ issued' = <<>>
            /\ UNCHANGED <<breakerVars, store, hyd, probes>>
       ELSE /\ state' = CLOSED
            /\ failures' = 0
            /\ nextAttemptTime' = 0
            /\ store' = StoreAfterUpdate(CLOSED, 0, lastFailureTime, 0, ok)
            /\ issued' = IssuedByUpdate(CLOSED, 0, lastFailureTime, 0)
            /\ hyd' = HydAfterUpdate(ok)
            /\ emitted' = <<ResetEvent>>
            /\ ret' = TRUE
            /\ probes' = 0
            /\ UNCHANGED lastFailureTime
    /\ UNCHANGED <<clock, registered, config, late>>
    /\ UNCHANGED gauge
    /\ UNCHANGED <<limiterVars, managerVars>>
    /\ UNCHANGED policyVars

(* ---- initializeFromRedis ---- *)
\* The reply to the get that is in flight arrives.
HydServe ==
    /\ hyd.pc = "wait"
    /\ hyd' = [hyd EXCEPT !.pc = "have", !.reply = store[HydKeys[hyd.k]]]
    /\ NoCall
    /\ UNCHANGED <<clock, registered, config, breakerVars, store, ghostVars>>
    /\ UNCHANGED gauge
    /\ UNCHANGED <<limiterVars, managerVars>>
    /\ UNCHANGED policyVars

\* value || '0'
OrZero(s) == IF Len(s) = 0 THEN <<"0">> ELSE s

\* The continuation after an await: assign the field, issue the next get.
HydResume ==
    /\ hyd.pc = "have"
    /\ Quiet
    /\ NoCall
    /\ burst' = NoBurst
    /\ late' = late
    /\ IF hyd.k = 1
       THEN IF Len(hyd.reply) > 0
            THEN /\ state' = ParseInt(hyd.reply)
                 /\ hyd' = [pc |-> "wait", k |-> 2, reply |-> Null]
                 /\ probes' = ProbesAfter(ParseInt(hyd.reply))
                 /\ UNCHANGED <<failures, lastFailureTime, nextAttemptTime>>
            ELSE /\ hyd' = HydIdle
                 /\ UNCHANGED <<breakerVars, probes>>
       ELSE /\ failures' = IF hyd.k = 2 THEN ParseInt(OrZero(hyd.reply)) ELSE failures
            /\ lastFailureTime' =
                 IF hyd.k = 3 THEN ParseInt(OrZero(hyd.reply)) ELSE lastFailureTime
            /\ nextAttemptTime' =
                 IF hyd.k = 4 THEN ParseInt(OrZero(hyd.reply)) ELSE nextAttemptTime
            /\ hyd' = IF hyd.k = 4 THEN HydIdle
                      ELSE [pc |-> "wait", k |-> hyd.k + 1, reply |-> Null]
            /\ UNCHANGED <<state, probes>>
    /\ UNCHANGED <<clock, registered, config, store>>
    /\ UNCHANGED gauge
    /\ UNCHANGED <<limiterVars, managerVars>>
    /\ UNCHANGED policyVars

\* The get that is in flight rejects: catch, log, and the hydration is over.
HydFail ==
    /\ hyd.pc = "wait"
    /\ hyd' = HydIdle
    /\ NoCall
    /\ UNCHANGED <<clock, registered, config, breakerVars, store, ghostVars>>
    /\ UNCHANGED gauge
    /\ UNCHANGED <<limiterVars, managerVars>>
    /\ UNCHANGED policyVars

(* ---- the other instances and the store ---- *)
\* What the breaker of another instance holds when its updateState runs.
PeerSnapshots(now) ==
    {[state |-> CLOSED, failures |-> f, lastFailure |-> IF f = 0 THEN 0 ELSE now,
      nextAttempt |-> 0] : f \in {0}}
    \cup
    {[state |-> OPEN, failures |-> MaxThreshold, lastFailure |-> now,
      nextAttempt |-> now + t] : t \in {MaxTimeout}}

PeerWrite(snap) ==
    /\ store' = StoreWrite(snap.state, snap.failures, snap.lastFailure,
                            snap.nextAttempt, MaxTimeout)
    /\ NoCall
    /\ UNCHANGED <<clock, registered, config, breakerVars, hyd, ghostVars>>
    /\ UNCHANGED gauge
    /\ UNCHANGED <<limiterVars, managerVars>>
    /\ UNCHANGED policyVars

\* The four keys get the same expiry in the same multi-op.
StoreExpire ==
    /\ store # EmptyStore
    /\ store' = EmptyStore
    /\ NoCall
    /\ UNCHANGED <<clock, registered, config, breakerVars, hyd, ghostVars>>
    /\ UNCHANGED gauge
    /\ UNCHANGED <<limiterVars, managerVars>>
    /\ UNCHANGED policyVars

(* ---- callers ---- *)
\* k requests that were admitted together fail together: their recordFailure
\* calls run back to back, in some order, with nothing else of the breaker
\* in between.
BeginBurst(k) ==
    /\ registered
    /\ Quiet
    /\ state = CLOSED
    /\ failures # NaN
    /\ failures < config.failureThreshold
    /\ failures + k >= config.failureThreshold
    /\ burst' = [left |-> k, opens |-> 0, trans |-> 0, on |-> TRUE]
    /\ NoCall
    /\ UNCHANGED <<clock, registered, config, breakerVars, store, hyd, probes, late>>
    /\ UNCHANGED gauge
    /\ UNCHANGED <<limiterVars, managerVars>>
    /\ UNCHANGED policyVars

(* ======================= RateLimitingPolicy ======================= *)
MaxLimit == 2
MaxWindowSec == 2
MaxReq == 2
MaxServed == 3

\* context.rateLimit?.limit || 100, context.rateLimit?.windowSec || 60
DefaultLimit == 100

DefaultWindowSec == 60

\* A field of context.rateLimit that is absent reads undefined, which is
\* falsy like 0: 0 stands for both.
NoContext == [limit |-> 0, windowSec |-> 0]

RlContexts == [limit : 0..MaxLimit, windowSec : 1..MaxWindowSec]

Limit(ctx) == IF ctx.limit = 0 THEN DefaultLimit ELSE ctx.limit

WindowSec(ctx) == IF ctx.windowSec = 0 THEN DefaultWindowSec ELSE ctx.windowSec

RlIdle == [pc |-> "idle", count |-> 0, k |-> 0, orphan |-> FALSE, stale |-> FALSE]

NoResult == [res |-> "none", k |-> 0, orphan |-> FALSE, stale |-> FALSE, failed |-> FALSE]

NewWindow == [k |-> 0, allowed |-> 0, orphan |-> FALSE]

LimiterInit(ctxs) ==
    /\ rlContext \in ctxs
    /\ rlValue = Null
    /\ rlTtl = 0
    /\ rlReq = [r \in 1..MaxReq |-> RlIdle]
    /\ rlWindow = NewWindow
    /\ rlLast = NoResult

\* A variant of the catch block that denies.
OnStoreErrorDeny == "denied"

\* catch (error) { ...; return { allowed: true }; }
OnStoreError == "allowed"

\* A variant of the comparison that lets one request more through.
OverLimitStrict(count, limit) == JsGT(count, limit)

\* if (count >= limit)
OverLimit(count, limit) == JsGE(count, limit)

\* evaluate() returns: the result, and what the request had seen of the
\* window; win is the window after the step.
RlReturn(r, res, k, orphan, stale, failed, win) ==
    /\ rlLast' = [res |-> res, k |-> k, orphan |-> orphan, stale |-> stale,
                  failed |-> failed]
    /\ rlReq' = [rlReq EXCEPT ![r] = RlIdle]
    /\ rlWindow' = IF res = "allowed" /\ ~failed /\ ~stale
                   THEN [win EXCEPT !.allowed = @ + 1]
                   ELSE win

\* evaluate() is called and runs up to its first await: the get is issued.
RlBegin(r) ==
    /\ rlReq[r].pc = "idle"
    /\ rlWindow.k < MaxServed
    /\ rlReq' = [rlReq EXCEPT ![r].pc = "get"]
    /\ UNCHANGED <<rlContext, rlValue, rlTtl, rlWindow, rlLast>>
    /\ UNCHANGED <<breakerAll, managerVars>>
    /\ UNCHANGED policyVars

\* One request at a time: evaluate() is called when no other call is in flight.
RlBeginAlone(r) ==
    /\ \A q \in 1..MaxReq : rlReq[q].pc = "idle"
    /\ RlBegin(r)

\* const count = parseInt(await this.redis.get(key) || '0', 10), and the
\* comparison with the limit.
RlGet(r, ok) ==
    /\ rlReq[r].pc = "get"
    /\ IF ~ok
       THEN RlReturn(r, OnStoreError, 0, rlWindow.orphan, FALSE, TRUE, rlWindow)
       ELSE LET count == ParseInt(OrZero(rlValue))
                k == rlWindow.k
                win == [rlWindow EXCEPT !.k = k + 1]
            IN  IF OverLimit(count, Limit(rlContext))
                THEN RlReturn(r, "denied", k, rlWindow.orphan, FALSE, FALSE, win)
                ELSE /\ rlReq' = [rlReq EXCEPT ![r] =
                                    [pc |-> "set", count |-> count, k |-> k,
                                     orphan |-> rlWindow.orphan, stale |-> FALSE]]
                     /\ rlWindow' = win
                     /\ UNCHANGED rlLast
    /\ UNCHANGED <<rlContext, rlValue, rlTtl>>
    /\ UNCHANGED <<breakerAll, managerVars>>
    /\ UNCHANGED policyVars

\* await this.redis.set(key, (count + 1).toString()).  Whether a set keeps
\* the expiry that is on the key is up to the store: keep is either.  A
\* key that was absent comes to be with no expiry.
RlSet(r, ok, keep) ==
    /\ rlReq[r].pc = "set"
    /\ LET req == rlReq[r]
           win == IF rlValue = Null /\ req.count # 0
                  THEN [rlWindow EXCEPT !.orphan = TRUE]
                  ELSE rlWindow
       IN  IF ~ok
           THEN /\ RlReturn(r, OnStoreError, req.k, req.orphan, req.stale, TRUE, rlWindow)
                /\ UNCHANGED <<rlValue, rlTtl>>
           ELSE /\ rlValue' = NumberToString(JsIncr(req.count))
                /\ rlTtl' = IF rlValue # Null /\ keep THEN rlTtl ELSE 0
                /\ IF req.count = 0
                   THEN /\ rlReq' = [rlReq EXCEPT ![r].pc = "expire"]
                        /\ rlWindow' = win
                        /\ UNCHANGED rlLast
                   ELSE RlReturn(r, "allowed", req.k, req.orphan, req.stale, FALSE, win)
    /\ UNCHANGED rlContext
    /\ UNCHANGED <<breakerAll, managerVars>>
    /\ UNCHANGED policyVars

\* if (count === 0) await this.redis.expire(key, windowSec)
RlExpire(r, ok) ==
    /\ rlReq[r].pc = "expire"
    /\ LET req == rlReq[r]
       IN  IF ~ok
           THEN /\ RlReturn(r, OnStoreError, req.k, req.orphan, req.stale, TRUE, rlWindow)
                /\ UNCHANGED rlTtl
           ELSE /\ rlTtl' = IF rlValue # Null THEN WindowSec(rlContext) ELSE rlTtl
                /\ RlReturn(r, "allowed", req.k, req.orphan, req.stale, FALSE, rlWindow)
    /\ UNCHANGED <<rlContext, rlValue>>
    /\ UNCHANGED <<breakerAll, managerVars>>
    /\ UNCHANGED policyVars

\* A second passes; a key whose expiry is up is removed.
RlTick ==
    /\ rlTtl > 0
    /\ rlTtl' = rlTtl - 1
    /\ IF rlTtl = 1
       THEN /\ rlValue' = Null
            /\ rlWindow' = NewWindow
            /\ rlReq' = [r \in 1..MaxReq |->
                            IF rlReq[r].pc \in {"set", "expire"}
                            THEN [rlReq[r] EXCEPT !.stale = TRUE]
                            ELSE rlReq[r]]
       ELSE UNCHANGED <<rlValue, rlWindow, rlReq>>
    /\ UNCHANGED <<rlContext, rlLast>>
    /\ UNCHANGED <<breakerAll, managerVars>>
    /\ UNCHANGED policyVars

(* ======================= ConfigManager ======================= *)
MaxRoutes == 2
MaxOps == 2

RouteNames == {"example-service", "orders"}

Targets == {"http://localhost:3001", "http://localhost:3002"}

\* RouteConfig, as far as name and target
Routes == [name : RouteNames, target : Targets]

\* getDefaultRoutes()
DefaultRoutes == <<[name |-> "example-service", target |-> "http://localhost:3001"]>>

(* ---- JSON.stringify and JSON.parse, a text being its sequence of tokens ---- *)
RECURSIVE StringifyItems(_, _, _)
StringifyItems(rs, i, pretty) ==
    IF i > Len(rs) THEN <<>>
    ELSE (IF pretty THEN <<"\n">> ELSE <<>>)
         \o <<"{", "name", rs[i].name, "target", rs[i].target, "}">>
         \o (IF i < Len(rs) THEN <<",">> ELSE <<>>)
         \o StringifyItems(rs, i + 1, pretty)

\* JSON.stringify(this.routes) and, pretty, JSON.stringify(this.routes, null, 2)
Stringify(rs, pretty) ==
    <<"[">> \o StringifyItems(rs, 1, pretty)
           \o (IF pretty /\ Len(rs) > 0 THEN <<"\n">> ELSE <<>>) \o <<"]">>

Significant(text) == SelectSeq(text, LAMBDA t : t \notin {"\n", ",", "[", "]"})

RECURSIVE ParseItems(_, _)
ParseItems(toks, i) ==
    IF i + 5 > Len(toks) THEN <<>>
    ELSE <<[name |-> toks[i + 2], target |-> toks[i + 4]]>> \o ParseItems(toks, i + 6)

\* JSON.parse
Parse(text) == ParseItems(Significant(text), 1)

\* A call that is not in flight.  Of a call in flight: where it stands, the
\* text handed to the write it awaits, what it will return, the name it was
\* given, the routes it found and the store writes queued before its own.
CmIdle ==
    [pc |-> "idle", kind |-> "none", text |-> Null, ret |-> "none",
     name |-> "none", before |-> <<>>, ahead |-> {}]

\* No call has returned yet.  Of the call that returned last: what it
\* returned, the name it was given, the routes it found and the write that
\* failed under it.
NoMutation ==
    [kind |-> "none", ret |-> "none", name |-> "none", before |-> <<>>,
     failed |-> "none"]

ManagerInit ==
    /\ routes = <<>>
    /\ isInitialized = FALSE
    /\ routesFile = Null
    /\ routesStore = Null
    /\ cmOps = [o \in 1..MaxOps |-> CmIdle]
    /\ cmLast = NoMutation

(* ---- initialize / loadRoutes ---- *)
\* loadRoutesFromRedis: the parsed text, [] when the key is absent
LoadRoutesFromRedis == IF routesStore # Null THEN Parse(routesStore) ELSE <<>>

\* What loadRoutes leaves: the routes, routes.json and config:routes.
Loaded ==
    IF Len(LoadRoutesFromRedis) > 0
    THEN [routes |-> LoadRoutesFromRedis, file |-> routesFile, store |-> routesStore]
    ELSE IF routesFile # Null
    THEN [routes |-> Parse(routesFile), file |-> routesFile,
          store |-> Stringify(Parse(routesFile), FALSE)]
    ELSE [routes |-> DefaultRoutes, file |-> Stringify(DefaultRoutes, TRUE),
          store |-> Stringify(DefaultRoutes, FALSE)]

\* if (!this.isInitialized) await this.initialize(): what the method works on.
Current ==
    IF isInitialized
    THEN [routes |-> routes, file |-> routesFile, store |-> routesStore]
    ELSE Loaded

\* initialize(), called at startup
CmInitialize ==
    /\ ~isInitialized
    /\ isInitialized' = TRUE
    /\ routes' = Loaded.routes
    /\ routesFile' = Loaded.file
    /\ routesStore' = Loaded.store
    /\ UNCHANGED <<cmOps, cmLast>>
    /\ UNCHANGED <<breakerAll, limiterVars>>
    /\ UNCHANGED policyVars

(* ---- addRoute, updateRoute, deleteRoute up to the await in saveRoutes ---- *)
\* The method has changed this.routes and saveRoutes has called writeFile
\* with the text of the routes as they are now.
CmSave(o, kind, name, rs, result) ==
    /\ routes' = rs
    /\ cmOps' = [cmOps EXCEPT ![o] =
                    [pc |-> "file", kind |-> kind, text |-> Stringify(rs, TRUE),
                     ret |-> result, name |-> name, before |-> Current.routes,
                     ahead |-> {}]]
    /\ UNCHANGED cmLast

\* The method returns without saving.
CmReturnEarly(kind, name, rs, result) ==
    /\ routes' = rs
    /\ cmLast' = [kind |-> kind, ret |-> result, name |-> name,
                  before |-> Current.routes, failed |-> "none"]
    /\ UNCHANGED cmOps

HasName(rs, name) == \E i \in 1..Len(rs) : rs[i].name = name

\* this.routes.push(route); await this.saveRoutes()
AddRoute(o, route) ==
    /\ cmOps[o].pc = "idle"
    /\ Len(Current.routes) < MaxRoutes
    /\ CmSave(o, "add", route.name, Append(Current.routes, route), "void")
    /\ isInitialized' = TRUE
    /\ routesFile' = Current.file
    /\ routesStore' = Current.store
    /\ UNCHANGED <<breakerAll, limiterVars>>
    /\ UNCHANGED policyVars

\* findIndex: the first route of that name, 0 for -1
FindIndex(rs, name) ==
    IF HasName(rs, name)
    THEN CHOOSE i \in 1..Len(rs) :
            rs[i].name = name /\ \A j \in 1..(i - 1) : rs[j].name # name
    ELSE 0

UpdateRoute(o, name, route) ==
    /\ cmOps[o].pc = "idle"
    /\ LET index == FindIndex(Current.routes, name)
       IN  IF index = 0
           THEN CmReturnEarly("update", name, Current.routes, "false")
           ELSE CmSave(o, "update", name,
                       [Current.routes EXCEPT ![index] = route], "true")
    /\ isInitialized' = TRUE
    /\ routesFile' = Current.file
    /\ routesStore' = Current.store
    /\ UNCHANGED <<breakerAll, limiterVars>>
    /\ UNCHANGED policyVars

DeleteRoute(o, name) ==
    /\ cmOps[o].pc = "idle"
    /\ LET kept == SelectSeq(Current.routes, LAMBDA r : r.name # name)
       IN  IF Len(kept) = Len(Current.routes)
           THEN CmReturnEarly("delete", name, kept, "false")
           ELSE CmSave(o, "delete", name, kept, "true")
    /\ isInitialized' = TRUE
    /\ routesFile' = Current.file
    /\ routesStore' = Current.store
    /\ UNCHANGED <<breakerAll, limiterVars>>
    /\ UNCHANGED policyVars

(* ---- saveRoutes ---- *)
\* writeFile settles.  Resolved: saveRoutesToRedis calls set with the text
\* of the routes as they are now.  Rejected: saveRoutes logs and rethrows,
\* the method rejects.
FileWritten(o, ok) ==
    /\ cmOps[o].pc = "file"
    /\ IF ok
       THEN /\ routesFile' = cmOps[o].text
            /\ cmOps' = [cmOps EXCEPT
                            ![o].pc = "store",
                            ![o].text = Stringify(routes, FALSE),
                            ![o].ahead = {p \in 1..MaxOps : cmOps[p].pc = "store"}]
            /\ UNCHANGED cmLast
       ELSE /\ cmLast' = [kind |-> cmOps[o].kind, ret |-> "error",
                          name |-> cmOps[o].name, before |-> cmOps[o].before,
                          failed |-> "file"]
            /\ cmOps' = [cmOps EXCEPT ![o] = CmIdle]
            /\ UNCHANGED routesFile
    /\ UNCHANGED <<routes, isInitialized, routesStore>>
    /\ UNCHANGED <<breakerAll, limiterVars>>
    /\ UNCHANGED policyVars

\* set settles, after the sets the connection was handed before it; a
\* rejection is caught and logged in saveRoutesToRedis.  The method returns.
StoreWritten(o, ok) ==
    /\ cmOps[o].pc = "store"
    /\ cmOps[o].ahead = {}
    /\ routesStore' = IF ok THEN cmOps[o].text ELSE routesStore
    /\ cmLast' = [kind |-> cmOps[o].kind, ret |-> cmOps[o].ret,
                  name |-> cmOps[o].name, before |-> cmOps[o].before,
                  failed |-> IF ok THEN "none" ELSE "store"]
    /\ cmOps' = [p \in 1..MaxOps |->
                    IF p = o THEN CmIdle
                    ELSE [cmOps[p] EXCEPT !.ahead = @ \ {o}]]
    /\ UNCHANGED <<routes, isInitialized, routesFile>>
    /\ UNCHANGED <<breakerAll, limiterVars>>
    /\ UNCHANGED policyVars

(* ======================= PolicyEngine ======================= *)
MaxChain == 3

\* registerBuiltInPolicies
BuiltInPolicies == {"authentication", "rate-limiting", "ip-filtering"}

\* The names a route's policies may hold: the built-in ones and one more.
PolicyNames == BuiltInPolicies \cup {"audit"}

RECURSIVE ChainsOfLength(_)
ChainsOfLength(n) ==
    IF n = 0 THEN {<<>>}
    ELSE {Append(c, name) : c \in ChainsOfLength(n - 1), name \in PolicyNames}

\* policyNames
Chains == UNION {ChainsOfLength(n) : n \in 0..MaxChain}

\* How an evaluate() call ends.
PolicyOutcomes == {"allowed", "unauthorized", "forbidden", "raised"}

\* PolicyResult; 0 and "" stand for an absent field.
Allowed == [allowed |-> TRUE, statusCode |-> 0, reason |-> "", policyName |-> ""]

\* What evaluate() resolved with.
Returned(outcome) ==
    IF outcome = "unauthorized"
    THEN [allowed |-> FALSE, statusCode |-> 401,
          reason |-> "Missing authentication header", policyName |-> ""]
    ELSE IF outcome = "forbidden"
    THEN [allowed |-> FALSE, statusCode |-> 403,
          reason |-> "IP address is blacklisted", policyName |-> ""]
    ELSE Allowed

PolicyInit ==
    /\ pePolicies = BuiltInPolicies
    /\ peNames = <<>>
    /\ peIndex = 0
    /\ peTrace = <<>>
    /\ peResult = {}

\* registerPolicy
RegisterPolicy(name) ==
    /\ pePolicies' = pePolicies \cup {name}
    /\ UNCHANGED <<peNames, peIndex, peTrace, peResult>>
    /\ UNCHANGED <<breakerAll, limiterVars, managerVars>>

\* if (!policy) continue: the first position from i on whose name has a
\* policy, Len(names) + 1 when there is none.
RECURSIVE FirstRegistered(_, _)
FirstRegistered(names, i) ==
    IF i > Len(names) \/ names[i] \in pePolicies THEN i
    ELSE FirstRegistered(names, i + 1)

SkippedOver(names, i, j) ==
    [k \in 1..(j - i) |-> [name |-> names[i + k - 1], outcome |-> "skipped"]]

\* catch (error): the result of a chain in which name's evaluate() raised,
\* an exception standing for the call rejecting
RaisedRethrown(name) ==
    [allowed |-> FALSE, statusCode |-> 0, reason |-> "exception", policyName |-> name]

\* catch (error): the result of a chain in which name's evaluate() raised
Raised(name) ==
    [allowed |-> FALSE, statusCode |-> 500, reason |-> "Error evaluating policy",
     policyName |-> name]

\* { ...result, policyName }, naming the last policy of the chain
DeniedNamesLast(result, name) == [result EXCEPT !.policyName = peNames[Len(peNames)]]

\* { ...result, policyName }
Denied(result, name) == [result EXCEPT !.policyName = name]

\* The for loop from position i on, up to the next await or the return.
PeLoop(names, i, trace) ==
    LET j == FirstRegistered(names, i)
    IN  /\ peTrace' = trace \o SkippedOver(names, i, j)
        /\ IF j > Len(names)
           THEN peIndex' = 0 /\ peResult' = {Allowed}
           ELSE peIndex' = j /\ peResult' = {}

\* applyPolicies is called.
ApplyPolicies(names) ==
    /\ peIndex = 0
    /\ peNames' = names
    /\ PeLoop(names, 1, <<>>)
    /\ UNCHANGED pePolicies
    /\ UNCHANGED <<breakerAll, limiterVars, managerVars>>

\* await policy.evaluate(req, context) settles.
PolicySettles(outcome) ==
    /\ peIndex > 0
    /\ LET name == peNames[peIndex]
           trace == Append(peTrace, [name |-> name, outcome |-> outcome])
       IN  IF outcome = "raised"
           THEN /\ peResult' = {Raised(name)}
                /\ peIndex' = 0
                /\ peTrace' = trace
           ELSE IF ~Returned(outcome).allowed
           THEN /\ peResult' = {Denied(Returned(outcome), name)}
                /\ peIndex' = 0
                /\ peTrace' = trace
           ELSE PeLoop(peNames, peIndex + 1, trace)
    /\ UNCHANGED <<pePolicies, peNames>>
    /\ UNCHANGED <<breakerAll, limiterVars, managerVars>>

(* ---- a new ConfigManager on the same store and directory ---- *)
\* The process ends with no call in flight and a new ConfigManager is
\* constructed: no routes, not initialized.  The routes held at shutdown are
\* kept for comparison.
CmRestart ==
    /\ isInitialized
    /\ \A o \in 1..MaxOps : cmOps[o].pc = "idle"
    /\ routes' = <<>>
    /\ isInitialized' = FALSE
    /\ cmLast' = [cmLast EXCEPT !.kind = "restart", !.before = routes]
    /\ UNCHANGED <<routesFile, routesStore, cmOps>>
    /\ UNCHANGED <<breakerAll, limiterVars>>
    /\ UNCHANGED policyVars

(* ======================= specifications ======================= *)
Init == BreakerInit /\ LimiterInit({NoContext}) /\ ManagerInit /\ PolicyInit

\* A breaker is registered and then sees admission checks and outcomes only.
Events(oks) ==
    \/ Tick
    \/ \E cfg \in Configs : RegisterNew(cfg)
    \/ \E ok \in oks : IsAllowed(ok)
    \/ \E ok \in oks : RecordSuccess(ok)
    \/ \E ok \in oks : RecordFailure(ok)
    \/ HydServe
    \/ HydResume
    \/ HydFail

\* What one instance does whatever the rest of the cluster does.
Instance(oks) ==
    \/ Events(oks)
    \/ \E ok \in oks : Reset(ok)
    \/ StoreExpire
    \/ \E k \in 2..MaxBurst : BeginBurst(k)

\* A gateway instance that is alone on its store.
Next == Instance(BOOLEAN)

Spec == Init /\ [][Next]_vars

\* The same, with the service registered again while the instance runs.
NextReconfig ==
    \/ Instance(BOOLEAN)
    \/ \E cfg \in Configs : ReRegister(cfg)

SpecReconfig == Init /\ [][NextReconfig]_vars

\* A gateway instance among others that mirror the same service to a store
\* that accepts every multi-op.
NextCluster ==
    \/ Instance({TRUE})
    \/ \E snap \in PeerSnapshots(clock) : PeerWrite(snap)

SpecCluster == Init /\ [][NextCluster]_vars

\* Sequences of is_allowed, record_success and record_failure against a
\* breaker registered once.
NextEvents == Events(BOOLEAN)

SpecEvents == Init /\ [][NextEvents]_vars

\* The same sequences where time keeps advancing and admission checks keep
\* being made.  The clock stops at MaxTime, so no open period is begun that
\* would end later.
NextLive ==
    \/ Tick
    \/ \E cfg \in Configs : RegisterNew(cfg)
    \/ \E ok \in BOOLEAN : IsAllowed(ok)
    \/ \E ok \in BOOLEAN : RecordSuccess(ok)
    \/ \E ok \in BOOLEAN : RecordFailure(ok) /\ nextAttemptTime' <= MaxTime
    \/ HydServe
    \/ HydResume
    \/ HydFail

SpecLive ==
    /\ Init
    /\ [][NextLive]_vars
    /\ WF_vars(Tick)
    /\ WF_vars(\E ok \in BOOLEAN : IsAllowed(ok))

\* A reset timeout (ms) above 15 minutes whose double is no whole number of
\* seconds.
LongTimeout == 900250

LongConfigs ==
    {WithDistributed([failureThreshold |-> 1, resetTimeout |-> LongTimeout], d) :
        d \in BOOLEAN}

\* One instance, its breaker registered with a short or with a long reset
\* timeout.
NextMirror ==
    \/ Instance(BOOLEAN)
    \/ \E cfg \in LongConfigs : RegisterNew(cfg)

SpecMirror == Init /\ [][NextMirror]_vars

InitLimiter == BreakerInit /\ LimiterInit(RlContexts) /\ ManagerInit /\ PolicyInit

\* Requests of one client on one route evaluated concurrently, the store
\* available.
NextLimiter ==
    \/ \E r \in 1..MaxReq : RlBegin(r)
    \/ \E r \in 1..MaxReq : RlGet(r, TRUE)
    \/ \E r \in 1..MaxReq, keep \in BOOLEAN : RlSet(r, TRUE, keep)
    \/ \E r \in 1..MaxReq : RlExpire(r, TRUE)
    \/ RlTick

SpecLimiter == InitLimiter /\ [][NextLimiter]_vars

\* The same requests evaluated one after another, the store available.
NextLimiterSeq ==
    \/ \E r \in 1..MaxReq : RlBeginAlone(r)
    \/ \E r \in 1..MaxReq : RlGet(r, TRUE)
    \/ \E r \in 1..MaxReq, keep \in BOOLEAN : RlSet(r, TRUE, keep)
    \/ \E r \in 1..MaxReq : RlExpire(r, TRUE)
    \/ RlTick

SpecLimiterSeq == InitLimiter /\ [][NextLimiterSeq]_vars

\* Requests evaluated one after another, the store failing some calls.
NextLimiterFlaky ==
    \/ \E r \in 1..MaxReq : RlBeginAlone(r)
    \/ \E r \in 1..MaxReq, ok \in BOOLEAN : RlGet(r, ok)
    \/ \E r \in 1..MaxReq, ok \in BOOLEAN, keep \in BOOLEAN : RlSet(r, ok, keep)
    \/ \E r \in 1..MaxReq, ok \in BOOLEAN : RlExpire(r, ok)
    \/ RlTick

SpecLimiterFlaky == InitLimiter /\ [][NextLimiterFlaky]_vars

\* No mutation is in flight.
NoMutationPending == \A o \in 1..MaxOps : cmOps[o].pc = "idle"

\* One ConfigManager, its mutations called one after another, the file
\* system and the store failing some writes.
NextManager ==
    \/ CmInitialize
    \/ \E o \in 1..MaxOps, route \in Routes :
          NoMutationPending /\ AddRoute(o, route)
    \/ \E o \in 1..MaxOps, name \in RouteNames, route \in Routes :
          NoMutationPending /\ UpdateRoute(o, name, route)
    \/ \E o \in 1..MaxOps, name \in RouteNames :
          NoMutationPending /\ DeleteRoute(o, name)
    \/ \E o \in 1..MaxOps, ok \in BOOLEAN : FileWritten(o, ok)
    \/ \E o \in 1..MaxOps, ok \in BOOLEAN : StoreWritten(o, ok)

SpecManager == Init /\ [][NextManager]_vars

\* The same, the process restarted between calls.
NextRestart ==
    \/ NextManager
    \/ CmRestart

SpecRestart == Init /\ [][NextRestart]_vars

\* The routes that go to the default target.
LocalRoutes == {r \in Routes : r.target = DefaultRoutes[1].target}

\* One initialized ConfigManager whose mutations may be called while others
\* are in flight, every write accepted.
NextOverlap ==
    \/ CmInitialize
    \/ \E o \in 1..MaxOps, route \in LocalRoutes :
          isInitialized /\ AddRoute(o, route)
    \/ \E o \in 1..MaxOps, name \in RouteNames, route \in LocalRoutes :
          isInitialized /\ UpdateRoute(o, name, route)
    \/ \E o \in 1..MaxOps, name \in RouteNames :
          isInitialized /\ DeleteRoute(o, name)
    \/ \E o \in 1..MaxOps : FileWritten(o, TRUE)
    \/ \E o \in 1..MaxOps : StoreWritten(o, TRUE)

SpecOverlap == Init /\ [][NextOverlap]_vars

\* One PolicyEngine: policies are registered and chains applied, one request
\* at a time.
NextEngine ==
    \/ \E name \in PolicyNames : RegisterPolicy(name)
    \/ \E names \in Chains : ApplyPolicies(names)
    \/ \E outcome \in PolicyOutcomes : PolicySettles(outcome)

SpecEngine == Init /\ [][NextEngine]_vars

(* ======================= properties ======================= *)
StateChanges(evs) == SelectSeq(evs, LAMBDA e : e.topic = "circuit:state-change")

FailureEvents(evs) == SelectSeq(evs, LAMBDA e : e.topic = "circuit:failure")

Outcomes == {"recordSuccess", "recordFailure"}

\* C1: when several record_failure calls in flight together take the count
\* from below the threshold to the threshold or above, the burst makes exactly
\* one CLOSED->OPEN transition and emits exactly one state-change event OPEN,
\* in whatever order the calls run.
C1_BurstOpensOnce ==
    burst.on =>
        /\ burst.opens <= 1
        /\ burst.trans <= 1
        /\ burst.left = 0 => (burst.opens = 1 /\ burst.trans = 1)

\* A burst is over, it opened the breaker once, and calls of it ran after
\* the one that crossed the threshold.
C1_Witness ==
    /\ burst.on
    /\ burst.left = 0
    /\ burst.opens = 1
    /\ state = OPEN
    /\ failures > config.failureThreshold

\* C2: in every reachable state of a registered breaker, CLOSED implies
\* failures < failure_threshold of the current config.  (A count that is NaN
\* is not held against the claim here.)
C2_ClosedBelowThreshold ==
    (registered /\ state = CLOSED /\ failures # NaN) =>
        failures < config.failureThreshold

\* C3: in every reachable state of a registered breaker, OPEN implies
\* next_attempt_time > 0.
C3_OpenHasNextAttempt ==
    (registered /\ state = OPEN) => nextAttemptTime > 0

C5_FailureInClosed ==
    [][(registered /\ lastOp' = "recordFailure" /\ state = CLOSED /\ failures # NaN) =>
        IF failures + 1 >= config.failureThreshold
        THEN /\ state' = OPEN
             /\ nextAttemptTime' = clock + config.resetTimeout
             /\ StateChanges(emitted') = <<StateChange(OPEN)>>
        ELSE /\ state' = CLOSED
             /\ failures' = failures + 1
             /\ Len(FailureEvents(emitted')) = 1
             /\ StateChanges(emitted') = <<>>]_vars

\* The failure that reached the threshold has just opened the breaker.
C5_Witness ==
    /\ registered
    /\ lastOp = "recordFailure"
    /\ state = OPEN
    /\ failures = config.failureThreshold
    /\ failures > 1
    /\ nextAttemptTime = clock + config.resetTimeout
    /\ emitted = <<FailureEvent(CLOSED), StateChange(OPEN)>>

HydAssignsState == hyd.pc = "have" /\ hyd.k = 1 /\ hyd'.pc = "wait"

\* C6 as stated: the admission check made once the reset timeout has passed
\* promotes with one state-change event HALF_OPEN, later checks in HALF_OPEN
\* leave the state, and the state changes again only when a success or a
\* failure is recorded.
C6_Original ==
    [][registered =>
        /\ (lastOp' = "isAllowed" /\ state = OPEN /\ clock >= nextAttemptTime) =>
             (state' = HALF_OPEN /\ emitted' = <<StateChange(HALF_OPEN)>>)
        /\ (lastOp' = "isAllowed" /\ state = HALF_OPEN) =>
             (state' = HALF_OPEN /\ emitted' = <<>>)
        /\ (state = HALF_OPEN /\ state' # HALF_OPEN) => lastOp' \in Outcomes]_vars

\* C6 amended: as C6, but the state also leaves HALF_OPEN when reset() is
\* called and when the hydration that is still running assigns the state it
\* read from the store.
C6_PromotionOnce ==
    [][registered =>
        /\ (lastOp' = "isAllowed" /\ state = OPEN /\ clock >= nextAttemptTime) =>
             (state' = HALF_OPEN /\ emitted' = <<StateChange(HALF_OPEN)>>)
        /\ (lastOp' = "isAllowed" /\ state = HALF_OPEN) =>
             (state' = HALF_OPEN /\ emitted' = <<>>)
        /\ (state = HALF_OPEN /\ state' # HALF_OPEN) =>
             (lastOp' \in Outcomes \cup {"reset"} \/ HydAssignsState)]_vars

\* A second admission check found the breaker HALF_OPEN and left it so.
C6_Witness ==
    /\ registered
    /\ lastOp = "isAllowed"
    /\ state = HALF_OPEN
    /\ emitted = <<>>
    /\ probes = 2

\* C7: the next outcome recorded on a HALF_OPEN breaker resolves it: a
\* success gives CLOSED with failures = 0 and next_attempt_time = 0, a failure
\* gives OPEN with next_attempt_time = now + reset_timeout, each with exactly
\* one state-change event carrying the new state.
C7_HalfOpenResolved ==
    [][(registered /\ state = HALF_OPEN) =>
        /\ lastOp' = "recordSuccess" =>
             /\ state' = CLOSED
             /\ failures' = 0
             /\ nextAttemptTime' = 0
             /\ StateChanges(emitted') = <<StateChange(CLOSED)>>
        /\ lastOp' = "recordFailure" =>
             /\ state' = OPEN
             /\ nextAttemptTime' = clock + config.resetTimeout
             /\ StateChanges(emitted') = <<StateChange(OPEN)>>]_vars

\* A probe failed and the breaker is open again for another reset timeout.
C7_Witness ==
    /\ registered
    /\ lastOp = "recordFailure"
    /\ state = OPEN
    /\ emitted = <<FailureEvent(HALF_OPEN), StateChange(OPEN)>>
    /\ nextAttemptTime = clock + config.resetTimeout

\* C8: once a probe's success has closed the breaker, the outcome recorded
\* for another probe admitted in the same HALF_OPEN period leaves the breaker
\* CLOSED, for every failure_threshold >= 1.
C8_LateProbeKeepsClosed ==
    [][(registered /\ late > 0 /\ state = CLOSED /\ lastOp' \in Outcomes) =>
        state' = CLOSED]_vars

\* C9 as stated: at every point the breaker is OPEN iff the failure count has
\* reached N since the last success-reset and the reset timeout has not
\* elapsed since it opened.
C9_Original ==
    registered =>
        (state = OPEN <=>
            (JsGE(failures, config.failureThreshold) /\ clock < nextAttemptTime))

\* C9 amended: the breaker is OPEN only if failures has reached N, it is OPEN
\* whenever failures has reached N and the reset timeout has not elapsed, and
\* with failures at N or above it is OPEN or HALF_OPEN: it stays OPEN after
\* the timeout until an admission check at or after next_attempt_time makes
\* it HALF_OPEN.
C9_OpenIffTripped ==
    registered =>
        /\ state = OPEN => JsGE(failures, config.failureThreshold)
        /\ (JsGE(failures, config.failureThreshold) /\ clock < nextAttemptTime) =>
             state = OPEN
        /\ JsGE(failures, config.failureThreshold) <=> state \in {OPEN, HALF_OPEN}
        /\ state = HALF_OPEN => clock >= nextAttemptTime

\* The reset timeout has elapsed, an outcome was recorded after it, and the
\* breaker is still OPEN.
C9_Witness ==
    /\ registered
    /\ state = OPEN
    /\ clock >= nextAttemptTime
    /\ lastOp = "recordSuccess"

\* successes_before_reset, 1 when the config does not give it.
SuccessesBeforeReset(c) ==
    IF "successesBeforeReset" \in DOMAIN c THEN c.successesBeforeReset ELSE 1

\* C10: record_success on a CLOSED breaker with failures > 0 sets failures to
\* max(0, failures - successes_before_reset), the latter 1 when the config
\* omits it, and keeps the state CLOSED.
C10_SuccessDecrements ==
    [][(registered /\ lastOp' = "recordSuccess" /\ state = CLOSED
            /\ JsGT(failures, 0)) =>
        /\ state' = CLOSED
        /\ failures' = Max(0, failures - SuccessesBeforeReset(config))]_vars

\* C11: when the store holds state = 1 (OPEN) with nextAttempt in the future
\* and an instance registers the service with distributed = true, the first
\* admission check made on it before nextAttempt returns false, also when it
\* is made right after register() returns, before the hydration has finished.
C11_HydratedOpenRejects ==
    [][(/\ lastOp = "register"
        /\ Distributed(config)
        /\ store.state = NumberToString(OPEN)
        /\ ParseInt(OrZero(store.nextAttempt)) > clock
        /\ lastOp' = "isAllowed")
       => ret' = FALSE]_vars

Mutators == {"isAllowed", "recordSuccess", "recordFailure", "reset"}

ThirtyMinutes == 30 * 60 * 1000

\* The four values of a multi-op are the fields of the breaker after the call.
MirrorsBreaker(op) ==
    /\ op.state = NumberToString(state')
    /\ op.failures = NumberToString(failures')
    /\ op.lastFailure = NumberToString(lastFailureTime')
    /\ op.nextAttempt = NumberToString(nextAttemptTime')

\* C12 as stated: with distributed = true every mutation by is_allowed,
\* record_success, record_failure or reset is followed by one multi-op that
\* writes the four keys with the values after the mutation and with expiry
\* max(2 x reset_timeout, 30 minutes); with distributed = false nothing is
\* written.
C12_Original ==
    [][lastOp' \in Mutators =>
        IF Distributed(config)
        THEN breakerVars' # breakerVars =>
               /\ Len(issued') = 1
               /\ MirrorsBreaker(issued'[1])
               /\ issued'[1].expiry * 1000 = Max(2 * config.resetTimeout, ThirtyMinutes)
        ELSE issued' = <<>> /\ store' = store]_vars

\* C12 amended: the same, the expiry being max(2 x reset_timeout, 30 minutes)
\* rounded down to whole seconds.
C12_MirrorsEveryMutation ==
    [][lastOp' \in Mutators =>
        IF Distributed(config)
        THEN breakerVars' # breakerVars =>
               /\ Len(issued') = 1
               /\ MirrorsBreaker(issued'[1])
               /\ issued'[1].expiry * 1000 <= Max(2 * config.resetTimeout, ThirtyMinutes)
               /\ Max(2 * config.resetTimeout, ThirtyMinutes) < (issued'[1].expiry + 1) * 1000
        ELSE issued' = <<>> /\ store' = store]_vars

C12_Witness ==
    /\ registered
    /\ Distributed(config)
    /\ config.resetTimeout = LongTimeout
    /\ lastOp = "recordFailure"
    /\ state = OPEN
    /\ Len(issued) = 1
    /\ store = issued[1]

\* What the breaker reads from its config: an optional key that is absent
\* reads undefined (no value), and distributed is used for its truthiness.
EffectiveConfig(c) ==
    [failureThreshold |-> c.failureThreshold,
     resetTimeout |-> c.resetTimeout,
     successesBeforeReset |->
         IF "successesBeforeReset" \in DOMAIN c THEN {c.successesBeforeReset} ELSE {},
     distributed |-> Distributed(c)]

\* C13: register(service_id, config) on a registered service_id replaces the
\* configuration: the effective config afterwards is the supplied one, no
\* field of the previous registration is carried over.
C13_ReRegisterReplaces ==
    [][\A cfg \in Configs :
          ReRegister(cfg) => EffectiveConfig(config') = EffectiveConfig(cfg)]_vars

ResetEvents(evs) == SelectSeq(evs, LAMBDA e : e.topic = "circuit:reset")

\* C14: reset(service_id) on a registered breaker, whatever its state, leaves
\* it CLOSED with failures = 0 and next_attempt_time = 0, emits one
\* circuit:reset event and returns true; on an unregistered service_id it
\* returns false, emits nothing and changes nothing.
C14_ResetForcesClosed ==
    [][lastOp' = "reset" =>
        IF registered
        THEN /\ state' = CLOSED
             /\ failures' = 0
             /\ nextAttemptTime' = 0
             /\ Len(ResetEvents(emitted')) = 1
             /\ ret' = TRUE
        ELSE /\ ret' = FALSE
             /\ emitted' = <<>>
             /\ UNCHANGED <<registered, config, breakerVars, store>>]_vars

\* reset has run on a breaker that had recorded a failure.
C14_Witness ==
    /\ lastOp = "reset"
    /\ ret = TRUE
    /\ registered
    /\ lastFailureTime > 0
    /\ state = CLOSED
    /\ failures = 0
    /\ nextAttemptTime = 0

\* C15: the circuit_breaker_state gauge is set on every state transition of
\* the breaker, so after any is_allowed, record_success, record_failure or
\* reset that changed the state, or that set the gauge, the gauge equals the
\* breaker's state code.
C15_GaugeTracksState ==
    [][lastOp' \in Mutators =>
        /\ state' # state => gauge' = state'
        /\ gauge' # gauge => gauge' = state']_vars

\* No evaluate() call is between its set and its expire.
NoExpirePending == \A r \in 1..MaxReq : rlReq[r].pc # "expire"

C17_NeverOverLimit == rlWindow.allowed <= Limit(rlContext)

\* C18: the counter key gets an expiry of window_seconds when the counter
\* goes from 0 to 1 and the expiry stays in force for the rest of the window:
\* a counter key that exists has an expiry of at most window_seconds ahead
\* (so the counter is gone window_seconds after the window began).
C18_ExpiryInForce ==
    (rlValue # Null /\ NoExpirePending) =>
        (rlTtl > 0 /\ rlTtl <= WindowSec(rlContext))

\* C19: when a store call of the policy fails, be it the read, the write or
\* the expiry, the policy returns allowed = true.
C19_FailsOpen == rlLast.failed => rlLast.res = "allowed"

\* The write went through and the expiry failed: the request was allowed.
C19_Witness ==
    /\ rlLast.failed
    /\ rlLast.res = "allowed"
    /\ rlValue = NumberToString(1)
    /\ rlTtl = 0
    /\ \A r \in 1..MaxReq : rlReq[r].pc = "idle"

NamesUnique(rs) ==
    \A i, j \in 1..Len(rs) : rs[i].name = rs[j].name => i = j

\* C20: add_route with a name that is in the active route set is refused and
\* changes nothing, so that after any sequence of add_route, update_route and
\* delete_route the names of the active routes are pairwise different.
C20_NamesUnique == NamesUnique(routes)

\* The call that returned last was a mutation that reported success.
Succeeded == cmLast.kind \in {"add", "update", "delete"} /\ cmLast.ret \in {"void", "true"}

\* C21: when the file write or the store write fails under add_route,
\* update_route or delete_route, the call reports an error and the routes in
\* memory are those it found.
C21_FailedWriteRollsBack ==
    (NoMutationPending /\ cmLast.failed # "none")
        => cmLast.ret = "error" /\ routes = cmLast.before

\* What reading a text back gives: the parsed routes, nothing when it is absent
ReadBack(text) == IF text = Null THEN {} ELSE {Parse(text)}

\* C22: after a mutation that completed successfully, config:routes and
\* routes.json read back as the same route list.
C22_StoreAndFileAgree ==
    (NoMutationPending /\ Succeeded)
        => /\ ReadBack(routesStore) # {}
           /\ ReadBack(routesStore) = ReadBack(routesFile)

\* C23: add_route(r) followed by delete_route(r.name) leaves the routes that
\* were there before the add, in their order.
C23_AddThenDeleteRestores ==
    [][\A o \in 1..MaxOps, name \in RouteNames :
          (/\ NoMutationPending
           /\ cmLast.kind = "add" /\ cmLast.ret = "void" /\ cmLast.name = name
           /\ DeleteRoute(o, name))
              => routes' = cmLast.before]_vars

\* C24: a new Config Manager started after a clean shutdown that followed
\* successful mutations returns from get_routes() the routes the previous
\* instance held at shutdown.
C24_ReloadYieldsSameRoutes ==
    (/\ NoMutationPending
     /\ cmLast.kind = "restart"
     /\ cmLast.ret \in {"void", "true"})
        => Current.routes = cmLast.before

\* C28: once the mutations that overlapped on an initialized Config Manager
\* have all completed, routes.json and config:routes both hold the routes
\* that are in memory, in whatever order the writes completed.
C28_OverlapLosesNothing ==
    (NoMutationPending /\ Succeeded)
        => ReadBack(routesFile) = {routes} /\ ReadBack(routesStore) = {routes}

\* The positions of the trace at which evaluate() returned allowed = false
DenialsIn(trace) ==
    {i \in 1..Len(trace) : trace[i].outcome \in {"unauthorized", "forbidden"}}

\* The positions of the trace at which evaluate() raised
RaisesIn(trace) == {i \in 1..Len(trace) : trace[i].outcome = "raised"}

\* C25 as stated: apply returns allowed = false if and only if some evaluated
\* policy returned allowed = false; policy_name is then the first such policy
\* and no later name is looked at.
C25_Original ==
    \A r \in peResult :
        /\ (~r.allowed) <=> DenialsIn(peTrace) # {}
        /\ DenialsIn(peTrace) # {}
              => /\ DenialsIn(peTrace) = {Len(peTrace)}
                 /\ r.policyName = peTrace[Len(peTrace)].name

\* C25: apply returns allowed = false if and only if some evaluated policy
\* returned allowed = false or raised; policy_name is then the first policy
\* that did so and no later name is looked at.
C25_DeniesIffPolicyStops ==
    \A r \in peResult :
        LET stops == DenialsIn(peTrace) \cup RaisesIn(peTrace)
        IN  /\ (~r.allowed) <=> stops # {}
            /\ stops # {}
                  => /\ stops = {Len(peTrace)}
                     /\ r.policyName = peTrace[Len(peTrace)].name
                     /\ r.policyName = peNames[Len(peTrace)]

C25_Witness ==
    \E r \in peResult :
        /\ ~r.allowed
        /\ Len(peTrace) = 2 /\ Len(peNames) = 3
        /\ peTrace[1].outcome = "allowed"
        /\ peTrace[2].outcome = "forbidden"
        /\ peNames[3] # peNames[2]

\* C26: when a policy raises, apply returns (it does not raise) a denial with
\* status 500, reason "Error evaluating policy" and the raising policy's
\* name, and looks at no later name; a name without a policy is passed over
\* and never ends the chain.
C26_RaiseAbortsWith500 ==
    \A r \in peResult :
        /\ RaisesIn(peTrace) # {}
              => /\ RaisesIn(peTrace) = {Len(peTrace)}
                 /\ ~r.allowed
                 /\ r.statusCode = 500
                 /\ r.reason = "Error evaluating policy"
                 /\ r.policyName = peNames[Len(peTrace)]
        /\ \A i \in 1..Len(peTrace) :
              peTrace[i].outcome = "skipped"
                  => /\ peNames[i] \notin BuiltInPolicies
                     /\ i = Len(peTrace) => r.allowed /\ i = Len(peNames)

C26_Witness ==
    \E r \in peResult :
        /\ Len(peTrace) = 2 /\ Len(peNames) = 3
        /\ peTrace[1].outcome = "skipped"
        /\ peTrace[2].outcome = "raised"
        /\ r.statusCode = 500

\* C27: the hydration leaves what was recorded locally after register()
\* returned: when it comes to assign the state it finds a state other than the
\* constructor's CLOSED only if a local call moved it, and keeps it; when it
\* comes to assign the failure count it does not lower the failures counted
\* locally.
C27_HydrationKeepsProgress ==
    [][HydResume =>
          /\ (hyd.k = 1 /\ state # CLOSED) => state' = state
          /\ (hyd.k = 2 /\ failures > 0) => failures' >= failures]_vars

\* C29: while the breaker is OPEN, record_success leaves state, failures and
\* next_attempt_time as they are, and record_failure adds one to failures (a
\* count) and sets last_failure_time to now but leaves the state OPEN and
\* next_attempt_time as it is.
C29_OpenIgnoresOutcomes ==
    [][(registered /\ state = OPEN) =>
          /\ lastOp' = "recordSuccess" =>
                /\ state' = OPEN
                /\ failures' = failures
                /\ nextAttemptTime' = nextAttemptTime
          /\ lastOp' = "recordFailure" =>
                /\ failures # NaN => failures' = failures + 1
                /\ lastFailureTime' = clock
                /\ state' = OPEN
                /\ nextAttemptTime' = nextAttemptTime]_vars

\* A failure was recorded on an OPEN breaker after its open period had begun
\* at an earlier time.
C29_Witness ==
    /\ registered
    /\ lastOp = "recordFailure"
    /\ emitted = <<FailureEvent(OPEN)>>
    /\ state = OPEN
    /\ lastFailureTime = clock
    /\ nextAttemptTime < clock + config.resetTimeout
    /\ failures > config.failureThreshold

\* C30: with time advancing and admission checks being made, an OPEN breaker
\* becomes HALF_OPEN, whatever successes and failures are recorded while it
\* is OPEN.
C30_OpenLeadsToHalfOpen == (registered /\ state = OPEN) ~> (state = HALF_OPEN)

\* The admission check promoted a breaker on which a failure was recorded
\* while it was OPEN.
C30_Witness ==
    /\ registered
    /\ lastOp = "isAllowed"
    /\ emitted = <<StateChange(HALF_OPEN)>>
    /\ state = HALF_OPEN
    /\ failures > config.failureThreshold
    /\ lastFailureTime = clock

\* C31: every step that changes a registered breaker's state (is_allowed,
\* record_success, record_failure, reset or the hydration) emits exactly one
\* circuit:state-change event, carrying the new state, and a step that leaves
\* the state emits none.
C31_EventsTrackState ==
    [][(registered /\ registered') =>
          IF state' # state
          THEN StateChanges(emitted') = <<StateChange(state')>>
          ELSE StateChanges(emitted') = <<>>]_vars

====
